---- MODULE Spec2Model ----
(***************************************************************************)
(* Model of qiskit/simulators/_qasmsimulator.py (class QasmSimulator).     *)
(*                                                                         *)
(* Numbers.  numpy's complex128/float64 values are modelled by exact       *)
(* arithmetic in the ring Z[sqrt 2][1/2] (every gate of the model has      *)
(* angles that are multiples of pi/2, so every amplitude the program       *)
(* computes lies in that ring), extended with one non-finite value NaN     *)
(* that propagates through + - * / sqrt the way IEEE NaN does and makes    *)
(* every comparison false.  Floating-point rounding is not modelled.       *)
(*                                                                         *)
(*   real     <<a, b, e>>  = (a + b*sqrt(2)) / 2^e   (e = -1 : NaN)        *)
(*   complex  <<re, im>>                                                   *)
(***************************************************************************)
EXTENDS Integers, Sequences, FiniteSets, TLC

\* ---------------------------------------------------------------- bounds
MaxOps == 3         \* longest operation list of a circuit
MaxShots == 2       \* largest shot count
RngPeriod == 3      \* the generator has RngPeriod states; draws are k/RngPeriod
MaxIndexBits == 4   \* largest n of the bit-index and CX kernel checks
MaxOffset == 4      \* amplitude vectors of the CX kernel check

\* ------------------------------------------------------------ integers
RECURSIVE Pow2(_)
Pow2(i) == IF i = 0 THEN 1 ELSE 2 * Pow2(i - 1)

Abs(x) == IF x < 0 THEN -x ELSE x

\* x >> i, x << i on Python's unbounded non-negative integers
ShiftRight(x, i) == x \div Pow2(i)
ShiftLeft(x, i) == x * Pow2(i)

RECURSIVE BitAnd(_, _)
BitAnd(x, y) ==
    IF x = 0 \/ y = 0 THEN 0
    ELSE (IF x % 2 = 1 /\ y % 2 = 1 THEN 1 ELSE 0) + 2 * BitAnd(x \div 2, y \div 2)

RECURSIVE BitOr(_, _)
BitOr(x, y) ==
    IF x = 0 THEN y
    ELSE IF y = 0 THEN x
    ELSE (IF x % 2 = 1 \/ y % 2 = 1 THEN 1 ELSE 0) + 2 * BitOr(x \div 2, y \div 2)

\* x & (~y) for non-negative x, y (Python's ~y is -y-1, two's complement)
RECURSIVE BitAndNot(_, _)
BitAndNot(x, y) ==
    IF x = 0 THEN 0
    ELSE (IF x % 2 = 1 /\ y % 2 = 0 THEN 1 ELSE 0) + 2 * BitAndNot(x \div 2, y \div 2)

\* bit i of x; used by the properties, not by the program
BitOf(x, i) == (x \div Pow2(i)) % 2

\* ---------------------------------------------------------- bit indices
\* _index1(b, i, k)
Index1(b, i, k) ==
    LET lowbits == BitAnd(k, ShiftLeft(1, i) - 1)
        r1 == ShiftRight(k, i)
        r2 == ShiftLeft(r1, 1)
        r3 == BitOr(r2, b)
        r4 == ShiftLeft(r3, i)
    IN  BitOr(r4, lowbits)

\* faulty variant: the larger position is not lowered by one before insertion
Index2NoAdjust(b1, i1, b2, i2, k) ==
    IF i1 > i2
    THEN Index1(b2, i2, Index1(b1, i1, k))
    ELSE Index1(b1, i1, Index1(b2, i2, k))

\* _index2(b1, i1, b2, i2, k), i1 # i2
Index2(b1, i1, b2, i2, k) ==
    IF i1 > i2
    THEN Index1(b2, i2, Index1(b1, i1 - 1, k))
    ELSE Index1(b1, i1, Index1(b2, i2 - 1, k))

\* ---------------------------------------------------- exact real numbers
RNaN == <<0, 0, -1>>
RZero == <<0, 0, 0>>
ROne == <<1, 0, 0>>
RInvSqrt2 == <<0, 1, 1>>      \* sqrt(2)/2 = cos(pi/4) = sin(pi/4)

IsNaN(x) == x[3] = -1

\* the canonical form: the exponent is as small as the numerator allows
RECURSIVE Reduce(_)
Reduce(x) ==
    IF x[3] > 0 /\ x[1] % 2 = 0 /\ x[2] % 2 = 0
    THEN Reduce(<<x[1] \div 2, x[2] \div 2, x[3] - 1>>)
    ELSE x

RAdd(x, y) ==
    IF IsNaN(x) \/ IsNaN(y) THEN RNaN
    ELSE LET e == IF x[3] > y[3] THEN x[3] ELSE y[3]
             fx == Pow2(e - x[3])
             fy == Pow2(e - y[3])
         IN  Reduce(<<x[1] * fx + y[1] * fy, x[2] * fx + y[2] * fy, e>>)

RNeg(x) == IF IsNaN(x) THEN RNaN ELSE <<-x[1], -x[2], x[3]>>

RSub(x, y) == RAdd(x, RNeg(y))

RMul(x, y) ==
    IF IsNaN(x) \/ IsNaN(y) THEN RNaN
    ELSE Reduce(<<x[1] * y[1] + 2 * x[2] * y[2],
                  x[1] * y[2] + x[2] * y[1],
                  x[3] + y[3]>>)

\* u <= v * sqrt(2) for integers u, v
LeqSqrt2(u, v) ==
    IF u <= 0 /\ v >= 0 THEN TRUE
    ELSE IF u > 0 /\ v <= 0 THEN FALSE
    ELSE IF u > 0 THEN u * u <= 2 * v * v
    ELSE u * u >= 2 * v * v

\* 0 <= x, false for NaN
RNonNeg(x) == ~IsNaN(x) /\ LeqSqrt2(-x[1], x[2])

\* x <= y, false when either is NaN (an IEEE comparison)
RLeq(x, y) == ~IsNaN(x) /\ ~IsNaN(y) /\ RNonNeg(RSub(y, x))

\* the exponent j with 2^j = v (v a power of two)
Log2(v) == CHOOSE j \in 0..16 : Pow2(j) = v

\* x / s.  With s = (c + d*sqrt 2)/2^f, 1/s = 2^f (c - d*sqrt 2)/(c^2 - 2 d^2).
\* A zero divisor gives a non-finite value (numpy: 0/0 = nan, x/0 = inf);
\* the program only ever divides zero amplitudes by a zero norm.
RDiv(x, s) ==
    IF IsNaN(x) \/ IsNaN(s) THEN RNaN
    ELSE IF s = RZero THEN RNaN
    ELSE LET c == s[1]
             d == s[2]
             n == c * c - 2 * d * d
             sgn == IF n < 0 THEN -1 ELSE 1
             j == Log2(Abs(n))
             a == sgn * (x[1] * c - 2 * x[2] * d)
             b == sgn * (x[2] * c - x[1] * d)
             e == x[3] + j - s[3]
         IN  IF e >= 0 THEN Reduce(<<a, b, e>>)
             ELSE <<a * Pow2(-e), b * Pow2(-e), 0>>

SqrtCandidates ==
    {Reduce(<<c, d, f>>) : c \in 0..2, d \in 0..2, f \in 0..3}

\* np.sqrt(p): the non-negative root; nan for nan and for a negative p
RSqrt(p) ==
    IF IsNaN(p) \/ ~RNonNeg(p) THEN RNaN
    ELSE CHOOSE s \in SqrtCandidates : RMul(s, s) = p

\* ------------------------------------------------------ complex numbers
CNaN == <<RNaN, RNaN>>
CZero == <<RZero, RZero>>
COne == <<ROne, RZero>>

CAdd(z, w) == <<RAdd(z[1], w[1]), RAdd(z[2], w[2])>>

CMul(z, w) ==
    <<RSub(RMul(z[1], w[1]), RMul(z[2], w[2])),
      RAdd(RMul(z[1], w[2]), RMul(z[2], w[1]))>>

CNeg(z) == <<RNeg(z[1]), RNeg(z[2])>>

\* complex128 / float64
CDivR(z, s) == <<RDiv(z[1], s), RDiv(z[2], s)>>

\* np.abs(z)**2
AbsSq(z) == RAdd(RMul(z[1], z[1]), RMul(z[2], z[2]))

\* ------------------------------------------------------- circuit inputs
\* Angles are given in units of pi/2.
CosHalf(theta) == IF theta = 0 THEN ROne ELSE IF theta = 1 THEN RInvSqrt2 ELSE RZero
SinHalf(theta) == IF theta = 0 THEN RZero ELSE IF theta = 1 THEN RInvSqrt2 ELSE ROne

\* np.exp(1j * a), a = k * pi/2
ExpI(k) ==
    LET r == k % 4
    IN  IF r = 0 THEN COne
        ELSE IF r = 1 THEN <<RZero, ROne>>
        ELSE IF r = 2 THEN CNeg(COne)
        ELSE <<RZero, RNeg(ROne)>>

\* the 2x2 matrix run() builds for a U entry, as <<g00, g01, g10, g11>>
GateMatrix(theta, phi, lam) ==
    LET c == <<CosHalf(theta), RZero>>
        s == <<SinHalf(theta), RZero>>
    IN  <<c,
          CMul(CNeg(ExpI(lam)), s),
          CMul(ExpI(phi), s),
          CMul(ExpI(phi + lam), c)>>

\* <<theta, phi, lambda>>: U(pi/2, 0, pi) = H and U(pi, pi/2, pi/2) = Y
Angles == {<<1, 0, 2>>, <<2, 1, 1>>}

OpRecord(name, qubits, cbits, angles) ==
    [name |-> name, qubit_indices |-> qubits, cbit_indices |-> cbits, angles |-> angles]

SupportedNames == {"U", "CX", "measure", "reset"}

\* the entries an operation list over n qubits and m classical bits may hold;
\* "if" stands for any entry run() does not know
OpsFor(n, m) ==
    {OpRecord("U", <<q>>, <<>>, a) : q \in 0..(n - 1), a \in Angles}
    \cup {OpRecord("CX", ct, <<>>, <<>>) :
            ct \in {p \in (0..(n - 1)) \X (0..(n - 1)) : p[1] # p[2]}}
    \cup {OpRecord("measure", <<q>>, <<b>>, <<>>) : q \in 0..(n - 1), b \in 0..(m - 1)}
    \cup {OpRecord("reset", <<q>>, <<>>, <<>>) : q \in 0..(n - 1)}
    \cup {OpRecord("if", <<>>, <<>>, <<>>)}

CircuitsOf(n, m, maxlen) ==
    {[number_of_qubits |-> n, number_of_cbits |-> m,
      number_of_operations |-> Len(q), qasm |-> q] :
        q \in UNION {[1..l -> OpsFor(n, m)] : l \in 0..maxlen}}

\* one qubit without and with classical bits, and two qubits (whose operation
\* lists are one entry shorter, the alphabet being twice as large)
Circuits ==
    CircuitsOf(1, 0, MaxOps) \cup CircuitsOf(1, 2, MaxOps) \cup CircuitsOf(2, 1, MaxOps - 1)

\* -------------------------------------------------------------- kernels
Dim(n) == ShiftLeft(1, n)

\* _add_qasm_single: the pairs (k, k | bit) are disjoint, so the loop is a
\* pointwise update
AddQasmSingle(psi, n, gate, qubit) ==
    LET bit == ShiftLeft(1, qubit)
    IN  [k \in 0..(Dim(n) - 1) |->
            IF BitAnd(k, bit) = 0
            THEN CAdd(CMul(gate[1], psi[k]), CMul(gate[2], psi[BitOr(k, bit)]))
            ELSE CAdd(CMul(gate[3], psi[k - bit]), CMul(gate[4], psi[k]))]

\* faulty variant: the pairs with control bit 0 are swapped
CxBodyControlZero(psi, q0, q1, k) ==
    LET ind1 == Index2(0, q0, 0, q1, k)
        ind3 == Index2(0, q0, 1, q1, k)
        cache0 == psi[ind1]
        cache1 == psi[ind3]
    IN  [psi EXCEPT ![ind3] = cache0, ![ind1] = cache1]

\* one iteration of the loop of _add_qasm_cx
CxBody(psi, q0, q1, k) ==
    LET ind1 == Index2(1, q0, 0, q1, k)
        ind3 == Index2(1, q0, 1, q1, k)
        cache0 == psi[ind1]
        cache1 == psi[ind3]
    IN  [psi EXCEPT ![ind3] = cache0, ![ind1] = cache1]

\* the loop of _add_qasm_cx from iteration k on
RECURSIVE CxLoop(_, _, _, _, _)
CxLoop(psi, n, q0, q1, k) ==
    IF k >= ShiftLeft(1, n - 2) THEN psi
    ELSE CxLoop(CxBody(psi, q0, q1, k), n, q0, q1, k + 1)

\* _add_qasm_cx
AddQasmCx(psi, n, q0, q1) == CxLoop(psi, n, q0, q1, 0)

\* probability_zero after the loop of _add_qasm_decision has reached ii
RECURSIVE ProbabilityZero(_, _, _, _)
ProbabilityZero(psi, n, qubit, ii) ==
    IF ii = 0 THEN RZero
    ELSE LET rest == ProbabilityZero(psi, n, qubit, ii - 1)
         IN  IF BitAnd(ii - 1, ShiftLeft(1, qubit)) = 0
             THEN RAdd(rest, AbsSq(psi[ii - 1]))
             ELSE rest

\* the draw k/RngPeriod compared with p: random_number <= probability_zero
DrawLeq(k, p) == RLeq(<<k, 0, 0>>, RMul(<<RngPeriod, 0, 0>>, p))

\* _add_qasm_decision, given the number random.random() returned
AddQasmDecision(psi, n, qubit, draw) ==
    LET probability_zero == ProbabilityZero(psi, n, qubit, Dim(n))
    IN  IF DrawLeq(draw, probability_zero)
        THEN [outcome |-> 0, norm |-> RSqrt(probability_zero), p0 |-> probability_zero]
        ELSE [outcome |-> 1, norm |-> RSqrt(RSub(ROne, probability_zero)),
              p0 |-> probability_zero]

\* the amplitudes after the projection loop of _add_qasm_measure
Project(psi, n, qubit, outcome, norm) ==
    [ii \in 0..(Dim(n) - 1) |->
        IF BitAnd(ShiftRight(ii, qubit), 1) = outcome
        THEN CDivR(psi[ii], norm)
        ELSE CZero]

\* faulty variant: the other classical bits are dropped
ClassicalOverwrite(c, cbit, outcome) == ShiftLeft(outcome, cbit)

\* the classical register update of _add_qasm_measure
ClassicalUpdate(c, cbit, outcome) ==
    LET bit == ShiftLeft(1, cbit)
    IN  BitOr(BitAndNot(c, bit), ShiftLeft(outcome, cbit))

\* the amplitudes _add_qasm_reset leaves
ResetState(psi, n, qubit, outcome, norm) ==
    LET temp == Project(psi, n, qubit, outcome, norm)
        bit == ShiftLeft(1, qubit)
    IN  IF outcome = 1
        THEN [k \in 0..(Dim(n) - 1) |->
                IF BitAnd(k, bit) = 0
                THEN CAdd(CAdd(CZero, temp[k]), temp[BitOr(k, bit)])
                ELSE CZero]
        ELSE temp

\* ------------------------------------------------------ outcome strings
\* bin(c)[2:]
RECURSIVE Bin(_)
Bin(c) ==
    IF c < 2 THEN <<IF c = 1 THEN "1" ELSE "0">>
    ELSE Append(Bin(c \div 2), IF c % 2 = 1 THEN "1" ELSE "0")

\* str.zfill(width)
RECURSIVE Zfill(_, _)
Zfill(str, width) == IF Len(str) >= width THEN str ELSE Zfill(<<"0">> \o str, width)

OutcomeString(c, m) == Zfill(Bin(c), m)

\* dict(Counter(outcomes))
Counter(outcomes) ==
    [key \in {outcomes[x] : x \in DOMAIN outcomes} |->
        Cardinality({x \in DOMAIN outcomes : outcomes[x] = key})]

\* ---------------------------------------------------------------- state
VARIABLES
    circuit,   \* the compiled circuit every simulator is constructed with
    rng,       \* the state of the module-level generator of `random`
    running,   \* the instance whose run() is executing, 0 when none is
    sim,       \* the QasmSimulator instances: their attributes, the position of
               \* run() (pc, shot, j), the locals of the last decision (decided,
               \* outcome, norm, p0) and one history field, last_written: the
               \* outcome of the last measure into each classical bit in this shot
    idx,       \* the bit-index check: arguments and result of _index2
    cxk        \* the CX kernel check: the amplitude vector and its history

vars == <<circuit, rng, running, sim, idx, cxk>>

Instances == {1, 2}

NoIdx == [phase |-> "off"]
NoCxk == [phase |-> "off"]

\* an object that __init__ has not built yet
Unbuilt ==
    [constructed |-> FALSE, ran |-> FALSE, seed |-> 0, shots |-> 0,
     pc |-> "idle", shot |-> 0, j |-> 0,
     quantum_state |-> <<>>, classical_state |-> 0, outcomes |-> <<>>,
     decided |-> FALSE, outcome |-> 0, norm |-> ROne, p0 |-> ROne,
     last_written |-> <<>>,
     result |-> [status |-> "NONE", data |-> <<>>]]

InitProgram(circuits) ==
    /\ circuit \in circuits
    /\ rng \in 0..(RngPeriod - 1)
    /\ running = 0
    /\ sim = [i \in Instances |-> Unbuilt]
    /\ idx = NoIdx
    /\ cxk = NoCxk

Init == InitProgram(Circuits)

NQ == circuit.number_of_qubits
Op(i) == circuit.qasm[sim[i].j + 1]

\* __init__(compiled_circuit, shots, seed): random.seed(seed) reseeds the
\* generator every instance shares
Construct(i) ==
    /\ running = 0
    /\ ~sim[i].constructed
    /\ \E shots \in 1..MaxShots, seed \in 0..(RngPeriod - 1) :
        /\ sim' = [sim EXCEPT ![i] =
                     [Unbuilt EXCEPT !.constructed = TRUE, !.shots = shots, !.seed = seed]]
        /\ rng' = seed
    /\ UNCHANGED <<circuit, running, idx, cxk>>

\* run() is entered: outcomes = []
RunBegin(i) ==
    /\ running = 0
    /\ sim[i].constructed
    /\ ~sim[i].ran
    /\ sim' = [sim EXCEPT ![i].ran = TRUE, ![i].pc = "shot", ![i].shot = 0,
                          ![i].outcomes = <<>>]
    /\ running' = i
    /\ UNCHANGED <<circuit, rng, idx, cxk>>

\* faulty variant: outcomes = [] inside the shot loop
ShotInitClearsOutcomes(i) ==
    /\ running = i
    /\ sim[i].pc = "shot"
    /\ sim[i].shot < sim[i].shots
    /\ sim' = [sim EXCEPT
                 ![i].quantum_state = [k \in 0..(Dim(NQ) - 1) |-> IF k = 0 THEN COne ELSE CZero],
                 ![i].classical_state = 0,
                 ![i].j = 0,
                 ![i].decided = FALSE,
                 ![i].last_written = [b \in 0..(circuit.number_of_cbits - 1) |-> 0],
                 ![i].outcomes = <<>>,
                 ![i].pc = "op"]
    /\ UNCHANGED <<circuit, rng, running, idx, cxk>>

\* the head of a shot: the state vector and the classical register are reset
ShotInit(i) ==
    /\ running = i
    /\ sim[i].pc = "shot"
    /\ sim[i].shot < sim[i].shots
    /\ sim' = [sim EXCEPT
                 ![i].quantum_state = [k \in 0..(Dim(NQ) - 1) |-> IF k = 0 THEN COne ELSE CZero],
                 ![i].classical_state = 0,
                 ![i].j = 0,
                 ![i].decided = FALSE,
                 ![i].last_written = [b \in 0..(circuit.number_of_cbits - 1) |-> 0],
                 ![i].pc = "op"]
    /\ UNCHANGED <<circuit, rng, running, idx, cxk>>

AtOp(i, name) ==
    /\ running = i
    /\ sim[i].pc = "op"
    /\ sim[i].j < circuit.number_of_operations
    /\ Op(i).name = name

ApplyU(i) ==
    /\ AtOp(i, "U")
    /\ LET a == Op(i).angles
           gate == GateMatrix(a[1], a[2], a[3])
       IN  sim' = [sim EXCEPT
                     ![i].quantum_state =
                         AddQasmSingle(sim[i].quantum_state, NQ, gate, Op(i).qubit_indices[1]),
                     ![i].decided = FALSE,
                     ![i].j = @ + 1]
    /\ UNCHANGED <<circuit, rng, running, idx, cxk>>

ApplyCX(i) ==
    /\ AtOp(i, "CX")
    /\ sim' = [sim EXCEPT
                 ![i].quantum_state =
                     AddQasmCx(sim[i].quantum_state, NQ,
                               Op(i).qubit_indices[1], Op(i).qubit_indices[2]),
                 ![i].decided = FALSE,
                 ![i].j = @ + 1]
    /\ UNCHANGED <<circuit, rng, running, idx, cxk>>

\* random.random(): the next number of the shared stream
NextRng == (rng + 1) % RngPeriod

ApplyMeasure(i) ==
    /\ AtOp(i, "measure")
    /\ LET qubit == Op(i).qubit_indices[1]
           cbit == Op(i).cbit_indices[1]
           d == AddQasmDecision(sim[i].quantum_state, NQ, qubit, rng)
       IN  sim' = [sim EXCEPT
                     ![i].quantum_state =
                         Project(sim[i].quantum_state, NQ, qubit, d.outcome, d.norm),
                     ![i].classical_state =
                         ClassicalUpdate(sim[i].classical_state, cbit, d.outcome),
                     ![i].decided = TRUE,
                     ![i].outcome = d.outcome, ![i].norm = d.norm, ![i].p0 = d.p0,
                     ![i].last_written = [@ EXCEPT ![cbit] = d.outcome],
                     ![i].j = @ + 1]
    /\ rng' = NextRng
    /\ UNCHANGED <<circuit, running, idx, cxk>>

ApplyReset(i) ==
    /\ AtOp(i, "reset")
    /\ LET qubit == Op(i).qubit_indices[1]
           d == AddQasmDecision(sim[i].quantum_state, NQ, qubit, rng)
       IN  sim' = [sim EXCEPT
                     ![i].quantum_state =
                         ResetState(sim[i].quantum_state, NQ, qubit, d.outcome, d.norm),
                     ![i].decided = TRUE,
                     ![i].outcome = d.outcome, ![i].norm = d.norm, ![i].p0 = d.p0,
                     ![i].j = @ + 1]
    /\ rng' = NextRng
    /\ UNCHANGED <<circuit, running, idx, cxk>>

\* faulty variant: ERROR is recorded but run() does not return
UnknownOpContinues(i) ==
    /\ running = i
    /\ sim[i].pc = "op"
    /\ sim[i].j < circuit.number_of_operations
    /\ Op(i).name \notin SupportedNames
    /\ sim' = [sim EXCEPT ![i].result.status = "ERROR", ![i].j = @ + 1]
    /\ UNCHANGED <<circuit, rng, running, idx, cxk>>

\* the else branch of the dispatch: status ERROR, return
UnknownOp(i) ==
    /\ running = i
    /\ sim[i].pc = "op"
    /\ sim[i].j < circuit.number_of_operations
    /\ Op(i).name \notin SupportedNames
    /\ sim' = [sim EXCEPT ![i].result.status = "ERROR", ![i].pc = "idle"]
    /\ running' = 0
    /\ UNCHANGED <<circuit, rng, idx, cxk>>

\* the operation loop is over: the outcome string of the shot is appended
ShotEnd(i) ==
    /\ running = i
    /\ sim[i].pc = "op"
    /\ sim[i].j >= circuit.number_of_operations
    /\ sim' = [sim EXCEPT
                 ![i].outcomes =
                     Append(@, OutcomeString(sim[i].classical_state, circuit.number_of_cbits)),
                 ![i].shot = @ + 1,
                 ![i].pc = "shot"]
    /\ UNCHANGED <<circuit, rng, running, idx, cxk>>

\* the shot loop is over: the result is filled in and returned
RunEnd(i) ==
    /\ running = i
    /\ sim[i].pc = "shot"
    /\ sim[i].shot >= sim[i].shots
    /\ LET data == IF sim[i].shots = 1
                   THEN ("quantum_state" :> sim[i].quantum_state)
                        @@ ("classical_state" :> sim[i].classical_state)
                        @@ sim[i].result.data
                   ELSE ("counts" :> Counter(sim[i].outcomes)) @@ sim[i].result.data
       IN  sim' = [sim EXCEPT ![i].result = [status |-> "DONE", data |-> data],
                              ![i].pc = "idle"]
    /\ running' = 0
    /\ UNCHANGED <<circuit, rng, idx, cxk>>

Step(i) ==
    \/ Construct(i)
    \/ RunBegin(i)
    \/ ShotInit(i)
    \/ ApplyU(i)
    \/ ApplyCX(i)
    \/ ApplyMeasure(i)
    \/ ApplyReset(i)
    \/ UnknownOp(i)
    \/ ShotEnd(i)
    \/ RunEnd(i)

\* one simulator, constructed and run once
Next == Step(1)

Spec == Init /\ [][Next]_vars

\* two simulators sharing the process (and so the generator of `random`),
\* constructed with the same circuit, run one after the other
SharedCircuits == CircuitsOf(1, 2, MaxOps - 1) \cup CircuitsOf(2, 1, MaxOps - 2)

InitShared == InitProgram(SharedCircuits)

NextShared == \E i \in Instances : Step(i)

SpecShared == InitShared /\ [][NextShared]_vars

\* ---------------------------------------------------- the bit-index check
IndexInputs ==
    {[phase |-> "in", n |-> n, b1 |-> b[1], i1 |-> i[1], b2 |-> b[2], i2 |-> i[2],
      k |-> k, retval |-> 0] :
        n \in 2..MaxIndexBits, b \in {0, 1} \X {0, 1},
        i \in {p \in (0..(MaxIndexBits - 1)) \X (0..(MaxIndexBits - 1)) : p[1] # p[2]},
        k \in 0..(Pow2(MaxIndexBits - 2) - 1)}

InitIndex ==
    /\ idx \in {x \in IndexInputs : x.i1 < x.n /\ x.i2 < x.n /\ x.k < Pow2(x.n - 2)}
    /\ circuit = CHOOSE c \in CircuitsOf(1, 0, 0) : TRUE
    /\ rng = 0
    /\ running = 0
    /\ sim = [i \in Instances |-> Unbuilt]
    /\ cxk = NoCxk

CallIndex2 ==
    /\ idx.phase = "in"
    /\ idx' = [idx EXCEPT !.phase = "out",
                          !.retval = Index2(idx.b1, idx.i1, idx.b2, idx.i2, idx.k)]
    /\ UNCHANGED <<circuit, rng, running, sim, cxk>>

NextIndex == CallIndex2

SpecIndex == InitIndex /\ [][NextIndex]_vars

\* ---------------------------------------------------- the CX kernel check
\* amplitude vectors with pairwise different entries: k |-> k + offset
Labelled(n, offset) == [k \in 0..(Dim(n) - 1) |-> <<<<k + offset, 0, 0>>, RZero>>]

CxInputs ==
    {[phase |-> "in", n |-> n, q0 |-> q[1], q1 |-> q[2], applied |-> 0,
      psi0 |-> Labelled(n, o), psi1 |-> Labelled(n, o), psi |-> Labelled(n, o)] :
        n \in 2..MaxIndexBits, o \in 0..MaxOffset,
        q \in {p \in (0..(MaxIndexBits - 1)) \X (0..(MaxIndexBits - 1)) : p[1] # p[2]}}

InitCx ==
    /\ cxk \in {x \in CxInputs : x.q0 < x.n /\ x.q1 < x.n}
    /\ circuit = CHOOSE c \in CircuitsOf(1, 0, 0) : TRUE
    /\ rng = 0
    /\ running = 0
    /\ sim = [i \in Instances |-> Unbuilt]
    /\ idx = NoIdx

\* _add_qasm_cx(q0, q1) on the vector; called twice in a row
CallCx ==
    /\ cxk.phase = "in"
    /\ cxk.applied < 2
    /\ LET out == AddQasmCx(cxk.psi, cxk.n, cxk.q0, cxk.q1)
       IN  cxk' = [cxk EXCEPT !.psi = out,
                              !.psi1 = IF cxk.applied = 0 THEN out ELSE @,
                              !.applied = @ + 1]
    /\ UNCHANGED <<circuit, rng, running, sim, idx>>

NextCx == CallCx

SpecCx == InitCx /\ [][NextCx]_vars

\* =============================================================== claims
Returned(i) == sim[i].ran /\ running # i
Supported(c) == \A x \in DOMAIN c.qasm : c.qasm[x].name \in SupportedNames
UnknownAt == {x \in DOMAIN circuit.qasm : circuit.qasm[x].name \notin SupportedNames}

\* sum of the squared moduli of the amplitudes below index ii
RECURSIVE NormSq(_, _)
NormSq(psi, ii) == IF ii = 0 THEN RZero ELSE RAdd(NormSq(psi, ii - 1), AbsSq(psi[ii - 1]))

Normalized(psi) == NormSq(psi, Dim(NQ)) = ROne

\* the entry run() executed last in the current shot of instance i
LastOp(i) == circuit.qasm[sim[i].j]

RECURSIVE SumOver(_, _)
SumOver(f, keys) ==
    IF keys = {} THEN 0
    ELSE LET key == CHOOSE x \in keys : TRUE
         IN  f[key] + SumOver(f, keys \ {key})

\* C1: two simulators constructed with the same circuit, shot count and seed
\* return the same result from run(), whatever the other one did in between.
C1_SameSeedSameResult ==
    \A a \in Instances, b \in Instances :
        (Returned(a) /\ Returned(b)
            /\ sim[a].seed = sim[b].seed /\ sim[a].shots = sim[b].shots)
        => sim[a].result = sim[b].result

\* C2: the norm a decision on a normalized state returns is never zero;
\* p0 = 0 gives outcome 1 with norm 1 and p0 = 1 gives outcome 0 with norm 1.
C2_NormNonZero ==
    \A i \in Instances :
        (sim[i].decided /\ ~IsNaN(sim[i].p0))
        => /\ sim[i].norm # RZero
           /\ sim[i].p0 = RZero => (sim[i].outcome = 1 /\ sim[i].norm = ROne)
           /\ sim[i].p0 = ROne => (sim[i].outcome = 0 /\ sim[i].norm = ROne)

\* C3: a measure of q into b that directly follows a reset of q yields 0:
\* bit b is 0 and every amplitude whose index has bit q set is zero.
C3_ResetThenMeasureZero ==
    \A i \in Instances :
        (running = i /\ sim[i].pc = "op" /\ sim[i].j >= 2
            /\ LastOp(i).name = "measure"
            /\ circuit.qasm[sim[i].j - 1].name = "reset"
            /\ circuit.qasm[sim[i].j - 1].qubit_indices = LastOp(i).qubit_indices)
        => /\ sim[i].outcome = 0
           /\ BitOf(sim[i].classical_state, LastOp(i).cbit_indices[1]) = 0
           /\ \A k \in 0..(Dim(NQ) - 1) :
                BitOf(k, LastOp(i).qubit_indices[1]) = 1 => sim[i].quantum_state[k] = CZero

\* C4: with shots > 1 and status DONE every key of counts has length
\* number_of_cbits and holds only '0' and '1'.
C4_KeyLength ==
    \A i \in Instances :
        (Returned(i) /\ sim[i].shots > 1 /\ sim[i].result.status = "DONE")
        => \A key \in DOMAIN sim[i].result.data.counts :
              /\ Len(key) = circuit.number_of_cbits
              /\ \A x \in DOMAIN key : key[x] \in {"0", "1"}

\* C5: with shots > 1 and supported operations only, run() returns DONE and
\* counts, whose values are positive and sum to shots; its keys are the
\* outcome strings that occurred, one per shot.
C5_CountsSumToShots ==
    \A i \in Instances :
        (Returned(i) /\ sim[i].shots > 1 /\ Supported(circuit))
        => /\ sim[i].result.status = "DONE"
           /\ DOMAIN sim[i].result.data = {"counts"}
           /\ LET counts == sim[i].result.data.counts
              IN  /\ \A key \in DOMAIN counts : counts[key] \in Nat \ {0}
                  /\ SumOver(counts, DOMAIN counts) = sim[i].shots
                  /\ Len(sim[i].outcomes) = sim[i].shots
                  /\ DOMAIN counts = {sim[i].outcomes[x] : x \in DOMAIN sim[i].outcomes}

C5_Witness ==
    \E i \in Instances :
        /\ Returned(i) /\ sim[i].shots > 1 /\ Supported(circuit)
        /\ sim[i].result.status = "DONE"
        /\ Cardinality(DOMAIN sim[i].result.data.counts) = 2

\* C6: an entry with an unknown name at position u makes run() return ERROR
\* and never DONE; nothing after u and no second shot is executed, and the
\* result holds no quantum_state, classical_state or counts.
C6_UnknownHalts ==
    \A i \in Instances : \A u \in UnknownAt :
        /\ sim[i].result.status # "DONE"
        /\ sim[i].shot = 0
        /\ sim[i].j <= u - 1
        /\ DOMAIN sim[i].result.data = {}
        /\ Returned(i) => /\ sim[i].result.status = "ERROR"
                          /\ sim[i].outcomes = <<>>

C6_Witness ==
    \E i \in Instances : \E u \in UnknownAt :
        /\ Returned(i) /\ sim[i].result.status = "ERROR"
        /\ sim[i].shots > 1
        /\ u > 1 /\ u < circuit.number_of_operations
        /\ sim[i].j = u - 1

\* C7: at every operation boundary of every shot the squared moduli of the
\* amplitudes sum to 1.
C7_NormOne ==
    \A i \in Instances :
        (running = i /\ sim[i].pc = "op") => Normalized(sim[i].quantum_state)

\* C8: _index2(b1, i1, b2, i2, k) is an n-bit integer with bit i1 = b1 and
\* bit i2 = b2 whose other n-2 bits, from the least significant, are the
\* bits of k; whichever of i1, i2 is the larger.
C8_Index2Bits ==
    idx.phase = "out"
    => /\ idx.retval \in 0..(Pow2(idx.n) - 1)
       /\ BitOf(idx.retval, idx.i1) = idx.b1
       /\ BitOf(idx.retval, idx.i2) = idx.b2
       /\ \A p \in (0..(idx.n - 1)) \ {idx.i1, idx.i2} :
            BitOf(idx.retval, p) =
                BitOf(idx.k, p - (IF idx.i1 < p THEN 1 ELSE 0) - (IF idx.i2 < p THEN 1 ELSE 0))

C8_Witness ==
    /\ idx.phase = "out"
    /\ idx.i1 > idx.i2 + 1
    /\ idx.i2 > 0
    /\ idx.b1 = 0 /\ idx.b2 = 1
    /\ idx.k = Pow2(idx.n - 2) - 1

\* k XOR 2^t
FlipBit(k, t) == IF BitOf(k, t) = 1 THEN k - Pow2(t) ELSE k + Pow2(t)

\* C9: CX(c, t) maps psi to psi' with psi'[k] = psi[k XOR 2^t] where bit c of
\* k is 1 and psi'[k] = psi[k] where it is 0; applied twice it restores psi.
C9_CxSwapsControlledPairs ==
    /\ cxk.phase = "in" /\ cxk.applied >= 1
       => \A k \in 0..(Dim(cxk.n) - 1) :
            cxk.psi1[k] = IF BitOf(k, cxk.q0) = 1
                          THEN cxk.psi0[FlipBit(k, cxk.q1)]
                          ELSE cxk.psi0[k]
    /\ cxk.phase = "in" /\ cxk.applied = 2 => cxk.psi = cxk.psi0

C9_Witness ==
    /\ cxk.phase = "in"
    /\ cxk.applied = 2
    /\ cxk.n > 2
    /\ cxk.q0 > cxk.q1
    /\ cxk.psi1 # cxk.psi0

\* C10: in a shot only measure changes the classical register: measure(q, b)
\* sets bit b to the sampled outcome and keeps every other bit, U, CX and
\* reset keep the register; so bit b always holds the outcome of the last
\* measure into b of this shot, or 0 if there was none.
C10_BitsKeepLastMeasure ==
    \A i \in Instances :
        (running = i /\ sim[i].pc = "op")
        => \A b \in 0..(circuit.number_of_cbits - 1) :
              BitOf(sim[i].classical_state, b) = sim[i].last_written[b]

C10_StepFrame ==
    \A i \in Instances :
        (running = i /\ sim[i].pc = "op" /\ sim[i].j < circuit.number_of_operations
            /\ Op(i).name \in SupportedNames)
        => IF Op(i).name = "measure"
           THEN \A b \in 0..circuit.number_of_cbits :
                  BitOf(sim'[i].classical_state, b) =
                      IF b = Op(i).cbit_indices[1]
                      THEN sim'[i].outcome
                      ELSE BitOf(sim[i].classical_state, b)
           ELSE sim'[i].classical_state = sim[i].classical_state

\* C10, as one formula: the register always holds the last measured outcomes,
\* and every operation step changes it as stated above.
C10_ClassicalFrame == [](C10_BitsKeepLastMeasure) /\ [][C10_StepFrame]_vars

C10_Witness ==
    \E i \in Instances :
        /\ running = i /\ sim[i].pc = "op" /\ sim[i].j >= 2
        /\ LastOp(i).name = "measure"
        /\ LastOp(i).cbit_indices[1] = 1
        /\ sim[i].outcome = 1
        /\ sim[i].classical_state = 3
        /\ Normalized(sim[i].quantum_state)

====
